---- MODULE Spec2Model ----
(***************************************************************************)
(* Model of package module (google.golang.org/appengine/module): the       *)
(* facade over the legacy "modules" RPC service and the App Engine Admin   *)
(* API.  A Go string is modelled as the sequence of its bytes, so that     *)
(* comparison (<), strings.Index, slicing and strings.ToLower are computed *)
(* the way the Go runtime computes them.  Tokens the code only emits       *)
(* (method names, field masks, serving statuses) are TLA+ strings.         *)
(***************************************************************************)
EXTENDS Integers, Sequences, FiniteSets

VARIABLES
    env,     \* the process environment (os.Getenv): variable name -> value
    last,    \* the call in progress/last made since the environment changed
    before   \* the path taken by the call made before `last` ("none" at start)

vars == <<env, last, before>>

----------------------------------------------------------------------------
(* Bounds of the model.                                                    *)

MaxInstances == 1
MaxListLen == 2
MaxEntries == 3

----------------------------------------------------------------------------
(* Strings.                                                                *)

EmptyString == <<>>
\* "default"
LitDefault == <<100, 101, 102, 97, 117, 108, 116>>
\* "true"
LitTrue == <<116, 114, 117, 101>>
\* '~'
Tilde == 126
\* ':'
Colon == 58

\* strings.Index(s, sep) for a one-byte separator: 0-based, -1 when absent.
Index(s, b) ==
    IF \E i \in 1..Len(s) : s[i] = b
    THEN (CHOOSE i \in 1..Len(s) : s[i] = b /\ \A j \in 1..(i - 1) : s[j] # b) - 1
    ELSE -1

\* The Go slice expression s[from:], from 0-based.
SliceFrom(s, from) == SubSeq(s, from + 1, Len(s))

\* strings.ToLower on ASCII bytes.
ToLower(s) ==
    [i \in 1..Len(s) |-> IF s[i] >= 65 /\ s[i] <= 90 THEN s[i] + 32 ELSE s[i]]

\* The Go operator < on strings: bytewise lexicographic order.
RECURSIVE StringLess(_, _)
StringLess(a, b) ==
    IF b = <<>> THEN FALSE
    ELSE IF a = <<>> THEN TRUE
    ELSE IF a[1] < b[1] THEN TRUE
    ELSE IF a[1] > b[1] THEN FALSE
    ELSE StringLess(Tail(a), Tail(b))

\* A pointer field of a protocol buffer request: <<>> is nil, <<x>> is set.
NilPtr == <<>>
Ptr(x) == <<x>>

\* Mutant of OptionalString: the field is set even when the argument is empty.
OptionalStringAlwaysSet(s) == Ptr(s)

\* if s != "" { req.Field = &s }: an optional string field of a request.
OptionalString(s) == IF s # <<>> THEN Ptr(s) ELSE NilPtr

----------------------------------------------------------------------------
(* Errors.  An error value is [kind, code, subject].                       *)

Err(kind, code, subject) == [kind |-> kind, code |-> code, subject |-> subject]
Nil == Err("nil", 0, <<>>)
NotFoundCode == 404

\* *googleapi.Error with the HTTP status of the response.
GoogleapiError(code) == Err("googleapi.Error", code, <<>>)
\* An error of the HTTP client that is no *googleapi.Error (transport).
TransportError == Err("net.Error", 0, <<>>)
\* Errors of the legacy RPC mechanism.
APIError(code) == Err("internal.APIError", code, <<>>)
CallError(code) == Err("internal.CallError", code, <<>>)

----------------------------------------------------------------------------
(* Identity resolution and path selection.                                 *)

getProjectID(e) ==
    LET projectID == e.GOOGLE_CLOUD_PROJECT IN
    IF projectID = EmptyString
    THEN LET appID == IF e.GAE_APPLICATION = EmptyString
                      THEN e.APPLICATION_ID
                      ELSE e.GAE_APPLICATION
             i == Index(appID, Tilde)
             p1 == IF i # -1 THEN SliceFrom(appID, i + 1) ELSE projectID
             j == Index(p1, Colon)
             p2 == IF j # -1 THEN SliceFrom(p1, j + 1) ELSE p1
         IN p2
    ELSE projectID

\* Mutant of getModuleorDefault: no fallback to "default".
getModuleNoDefault(e) == e.GAE_SERVICE

getModuleorDefault(e) ==
    LET module == e.GAE_SERVICE IN
    IF module = EmptyString THEN LitDefault ELSE module

\* Mutant of useAdminAPI: the flag is compared without lowering it.
useAdminAPICaseSensitive(e) == e.MODULES_USE_ADMIN_API = LitTrue

useAdminAPI(e) == ToLower(e.MODULES_USE_ADMIN_API) = LitTrue

\* appengine.VersionID(c): the current version id carried by the context.
VersionID(c) == c.versionID

UserAgentPrefix == "appengine-modules-api-go-client/"

\* Mutant of getAdminService: the service is reported as not created even
\* when admin.NewService succeeds, so no request follows.
getAdminServiceNeverCreated(methodName, created) ==
    [svc |-> [userAgent |-> ""],
     err |-> Err("module: could not create admin service", 0, <<>>)]

\* created: whether admin.NewService succeeds.
getAdminService(methodName, created) ==
    IF created
    THEN [svc |-> [userAgent |-> UserAgentPrefix \o methodName], err |-> Nil]
    ELSE [svc |-> [userAgent |-> ""],
          err |-> Err("module: could not create admin service", 0, <<>>)]

----------------------------------------------------------------------------
(* Outbound requests.                                                      *)

\* A request of the Admin API client: the call, the resource it addresses,
\* the updateMask parameter, the body, the User-Agent of the service the call
\* is made on, and the context attached with .Context() ("background" when
\* none is attached: the client then uses context.Background()).
AdminRequest(call, verb, projectID, service, version, mask, body, svc, ctx) ==
    [api |-> "admin", call |-> call, verb |-> verb, project |-> projectID,
     service |-> service, version |-> version, updateMask |-> mask,
     body |-> body, userAgent |-> svc.userAgent, ctx |-> ctx]

NoBody == <<>>
NoMask == ""
Background == "context.Background"

\* internal.Call(c, "modules", method, req, res): the request message with
\* its optional fields.
RpcRequest(c, method, module, version, instances) ==
    [api |-> "rpc", service |-> "modules", method |-> method,
     module |-> module, version |-> version, instances |-> instances,
     ctx |-> c.id]

\* internal.Call: on an error the response message is left as it was
\* allocated, otherwise it holds the decoded response.
Call(w, zero) ==
    IF w.err # Nil THEN [err |-> w.err, res |-> zero]
    ELSE [err |-> Nil, res |-> w.body]

\* What a handler returns, and the requests it sent on the way.
Ret(requests, val, err) ==
    [path |-> IF requests # <<>> /\ requests[1].api = "rpc"
              THEN "Legacy" ELSE "Modern",
     requests |-> requests, val |-> val, err |-> err, panicked |-> FALSE,
     visited |-> 0]

\* A handler that dereferenced a nil pointer: the goroutine panics.
Panic(requests) ==
    [Ret(requests, <<>>, Nil) EXCEPT !.panicked = TRUE]

----------------------------------------------------------------------------
(* List.                                                                   *)

\* Mutant of appendIds: each id is put in front of the ones before it.
appendIdsInFront(resources) ==
    [i \in 1..Len(resources) |-> resources[Len(resources) + 1 - i].id]

\* for _, s := range resp.Services { modules = append(modules, s.Id) }
appendIds(resources) == [i \in 1..Len(resources) |-> resources[i].id]

ListLegacy(c, w) ==
    LET req == RpcRequest(c, "GetModules", NilPtr, NilPtr, NilPtr)
        r == Call(w, [module |-> <<>>])
    IN Ret(<<req>>, r.res.module, r.err)

ListAdmin(e, c, w) ==
    LET projectID == getProjectID(e)
        s == getAdminService("get_modules", w.created)
        req == AdminRequest("apps.services.list", "GET", projectID,
                            EmptyString, EmptyString, NoMask, NoBody, s.svc,
                            Background)
    IN IF s.err # Nil THEN Ret(<<>>, <<>>, s.err)
       ELSE IF w.err # Nil THEN Ret(<<req>>, <<>>, w.err)
       ELSE Ret(<<req>>,
                appendIds(w.body.services),
                Nil)

List(e, c, w) ==
    IF ~useAdminAPI(e) THEN ListLegacy(c, w) ELSE ListAdmin(e, c, w)

----------------------------------------------------------------------------
(* NumInstances.                                                           *)

NumInstancesLegacy(c, module, version, w) ==
    LET req == RpcRequest(c, "GetNumInstances",
                          OptionalString(module),
                          OptionalString(version),
                          NilPtr)
        r == Call(w, [instances |-> NilPtr])
    IN IF r.err # Nil THEN Ret(<<req>>, 0, r.err)
       ELSE IF r.res.instances = NilPtr THEN Panic(<<req>>)
       ELSE Ret(<<req>>, r.res.instances[1], Nil)

\* Mutant of manualScalingInstances: no error without manual scaling.
manualScalingInstancesNoError(v, version) ==
    IF v.manualScaling # NilPtr
    THEN [val |-> v.manualScaling[1].instances, err |-> Nil]
    ELSE [val |-> 0, err |-> Nil]

\* The instance count of a fetched version, or why it has none.
manualScalingInstances(v, version) ==
    IF v.manualScaling # NilPtr
    THEN [val |-> v.manualScaling[1].instances, err |-> Nil]
    ELSE [val |-> 0,
          err |-> Err("module: version is not using manual scaling", 0, version)]

NumInstancesAdmin(e, c, module0, version0, w) ==
    LET module == IF module0 = EmptyString THEN getModuleorDefault(e) ELSE module0
        version == IF version0 = EmptyString THEN VersionID(c) ELSE version0
        projectID == getProjectID(e)
        s == getAdminService("get_num_instances", w.created)
        req == AdminRequest("apps.services.versions.get", "GET", projectID,
                            module, version, NoMask, NoBody, s.svc, Background)
    IN IF s.err # Nil THEN Ret(<<>>, 0, s.err)
       ELSE IF w.err # Nil THEN Ret(<<req>>, 0, w.err)
       ELSE LET r == manualScalingInstances(w.body, version)
            IN Ret(<<req>>, r.val, r.err)

NumInstances(e, c, module, version, w) ==
    IF ~useAdminAPI(e) THEN NumInstancesLegacy(c, module, version, w)
    ELSE NumInstancesAdmin(e, c, module, version, w)

----------------------------------------------------------------------------
(* SetNumInstances.                                                        *)

SetNumInstancesLegacy(c, module, version, instances, w) ==
    LET req == RpcRequest(c, "SetNumInstances",
                          OptionalString(module),
                          OptionalString(version),
                          Ptr(instances))
        r == Call(w, <<>>)
    IN Ret(<<req>>, <<>>, r.err)

\* Mutant of manualScalingUpdate: the payload also carries the serving status.
manualScalingUpdateWithStatus(instances) ==
    [manualScaling |-> [instances |-> instances], servingStatus |-> "SERVING"]

\* update := &admin.Version{ManualScaling: &admin.ManualScaling{Instances: ...}}:
\* the fields of the version resource the payload sets.
manualScalingUpdate(instances) == [manualScaling |-> [instances |-> instances]]

SetNumInstancesAdmin(e, c, module0, version0, instances, w) ==
    LET module == IF module0 = EmptyString THEN getModuleorDefault(e) ELSE module0
        version == IF version0 = EmptyString THEN VersionID(c) ELSE version0
        projectID == getProjectID(e)
        s == getAdminService("set_num_instances", w.created)
        update == manualScalingUpdate(instances)
        req == AdminRequest("apps.services.versions.patch", "PATCH", projectID,
                            module, version, "manualScaling.instances", update,
                            s.svc, Background)
    IN IF s.err # Nil THEN Ret(<<>>, <<>>, s.err)
       ELSE Ret(<<req>>, <<>>, w.err)

SetNumInstances(e, c, module, version, instances, w) ==
    IF ~useAdminAPI(e) THEN SetNumInstancesLegacy(c, module, version, instances, w)
    ELSE SetNumInstancesAdmin(e, c, module, version, instances, w)

----------------------------------------------------------------------------
(* Versions.                                                               *)

VersionsLegacy(c, module, w) ==
    LET req == RpcRequest(c, "GetVersions",
                          OptionalString(module),
                          NilPtr, NilPtr)
        r == Call(w, [version |-> <<>>])
    IN Ret(<<req>>, r.res.version, r.err)

VersionsAdmin(e, c, module0, w) ==
    LET module == IF module0 = EmptyString THEN getModuleorDefault(e) ELSE module0
        projectID == getProjectID(e)
        s == getAdminService("get_versions", w.created)
        req == AdminRequest("apps.services.versions.list", "GET", projectID,
                            module, EmptyString, NoMask, NoBody, s.svc,
                            Background)
    IN IF s.err # Nil THEN Ret(<<>>, <<>>, s.err)
       ELSE IF w.err # Nil THEN Ret(<<req>>, <<>>, w.err)
       ELSE Ret(<<req>>,
                appendIds(w.body.versions),
                Nil)

Versions(e, c, module, w) ==
    IF ~useAdminAPI(e) THEN VersionsLegacy(c, module, w)
    ELSE VersionsAdmin(e, c, module, w)

----------------------------------------------------------------------------
(* DefaultVersion.  Allocations are fractions in hundredths: 100 is 1.0.   *)

\* allocation == 1.0
FullAllocation == 100
\* maxAlloc := -1.0
InitialMaxAlloc == -100

\* Mutant of ScanAllocations: no tie-break, the first of the tied entries stays.
RECURSIVE ScanWithoutTieBreak(_, _, _, _, _)
ScanWithoutTieBreak(allocations, order, i, retVersion, maxAlloc) ==
    IF i > Len(order) THEN [retVersion |-> retVersion, visited |-> Len(order)]
    ELSE LET version == order[i]
             allocation == allocations[version]
         IN IF allocation = FullAllocation
            THEN [retVersion |-> version, visited |-> i]
            ELSE IF allocation > maxAlloc
            THEN ScanWithoutTieBreak(allocations, order, i + 1, version, allocation)
            ELSE ScanWithoutTieBreak(allocations, order, i + 1, retVersion, maxAlloc)

\* Mutant of ScanAllocations: an allocation of 1.0 does not end the loop.
RECURSIVE ScanWithoutBreak(_, _, _, _, _)
ScanWithoutBreak(allocations, order, i, retVersion, maxAlloc) ==
    IF i > Len(order) THEN [retVersion |-> retVersion, visited |-> Len(order)]
    ELSE LET version == order[i]
             allocation == allocations[version]
         IN IF allocation > maxAlloc
            THEN ScanWithoutBreak(allocations, order, i + 1, version, allocation)
            ELSE IF allocation = maxAlloc /\ StringLess(version, retVersion)
            THEN ScanWithoutBreak(allocations, order, i + 1, version, maxAlloc)
            ELSE ScanWithoutBreak(allocations, order, i + 1, retVersion, maxAlloc)

\* The loop over service.Split.Allocations, entries visited in `order`       
\* (Go ranges over a map in an unspecified order), from entry i on.
RECURSIVE ScanAllocations(_, _, _, _, _)
ScanAllocations(allocations, order, i, retVersion, maxAlloc) ==
    IF i > Len(order) THEN [retVersion |-> retVersion, visited |-> Len(order)]
    ELSE LET version == order[i]
             allocation == allocations[version]
         IN IF allocation = FullAllocation
            THEN [retVersion |-> version, visited |-> i]
            ELSE IF allocation > maxAlloc
            THEN ScanAllocations(allocations, order, i + 1, version, allocation)
            ELSE IF allocation = maxAlloc /\ StringLess(version, retVersion)
            THEN ScanAllocations(allocations, order, i + 1, version, maxAlloc)
            ELSE ScanAllocations(allocations, order, i + 1, retVersion, maxAlloc)

\* Mutant of TranslateGetError: every googleapi error reads as not found.
TranslateEveryGoogleapiError(err, module) ==
    IF err.kind = "googleapi.Error"
    THEN Err("module: Module not found", 0, module)
    ELSE err

\* Translation of a failed Services.Get.
TranslateGetError(err, module) ==
    IF err.kind = "googleapi.Error" /\ err.code = NotFoundCode
    THEN Err("module: Module not found", 0, module)
    ELSE err

DefaultVersionLegacy(c, module, w) ==
    LET req == RpcRequest(c, "GetDefaultVersion",
                          OptionalString(module),
                          NilPtr, NilPtr)
        r == Call(w, [version |-> EmptyString])
    IN Ret(<<req>>, r.res.version, r.err)

\* The default version of a fetched service: the scan of its allocations,
\* when it has a split with allocations.
selectDefault(service, order) ==
    IF service.split # NilPtr /\ service.split[1].allocations # NilPtr
    THEN ScanAllocations(service.split[1].allocations[1], order, 1,
                         EmptyString, InitialMaxAlloc)
    ELSE [retVersion |-> EmptyString, visited |-> 0]

\* Mutant of defaultVersionResult: the empty selection is returned as it is.
defaultVersionResultUnchecked(retVersion, module) ==
    [val |-> retVersion, err |-> Nil]

\* if retVersion == "" { return "", fmt.Errorf(...) }; return retVersion, nil
defaultVersionResult(retVersion, module) ==
    IF retVersion = EmptyString
    THEN [val |-> EmptyString,
          err |-> Err("module: could not determine default version", 0, module)]
    ELSE [val |-> retVersion, err |-> Nil]

DefaultVersionAdmin(e, c, module0, w, order) ==
    LET module == IF module0 = EmptyString THEN getModuleorDefault(e) ELSE module0
        projectID == getProjectID(e)
        s == getAdminService("get_default_version", w.created)
        req == AdminRequest("apps.services.get", "GET", projectID, module,
                            EmptyString, NoMask, NoBody, s.svc, c.id)
    IN IF s.err # Nil THEN Ret(<<>>, EmptyString, s.err)
       ELSE IF w.err # Nil
            THEN Ret(<<req>>, EmptyString, TranslateGetError(w.err, module))
       ELSE LET scan == selectDefault(w.body, order)
                r == defaultVersionResult(scan.retVersion, module)
            IN [Ret(<<req>>, r.val, r.err) EXCEPT !.visited = scan.visited]

DefaultVersion(e, c, module, w, order) ==
    IF ~useAdminAPI(e) THEN DefaultVersionLegacy(c, module, w)
    ELSE DefaultVersionAdmin(e, c, module, w, order)

----------------------------------------------------------------------------
(* Start and Stop.                                                         *)

\* Mutant of servingMethodName: one method name for both statuses.
servingMethodNameShared(status) == "start_version"

\* The method name setServingStatus gives the admin service.
servingMethodName(status) ==
    IF status = "SERVING" THEN "start_version"
    ELSE IF status = "STOPPED" THEN "stop_version"
    ELSE ""

setServingStatus(e, c, module0, version0, status, w) ==
    LET projectID == getProjectID(e)
        methodName == servingMethodName(status)
        s == getAdminService(methodName, w.created)
        module == IF module0 = EmptyString THEN getModuleorDefault(e) ELSE module0
        version == IF version0 = EmptyString THEN VersionID(c) ELSE version0
        update == [servingStatus |-> status]
        req == AdminRequest("apps.services.versions.patch", "PATCH", projectID,
                            module, version, "servingStatus", update, s.svc,
                            Background)
    IN IF s.err # Nil THEN Ret(<<>>, <<>>, s.err)
       ELSE Ret(<<req>>, <<>>, w.err)

StartLegacy(c, module, version, w) ==
    LET req == RpcRequest(c, "StartModule",
                          OptionalString(module),
                          OptionalString(version),
                          NilPtr)
        r == Call(w, <<>>)
    IN Ret(<<req>>, <<>>, r.err)

Start(e, c, module, version, w) ==
    IF ~useAdminAPI(e) THEN StartLegacy(c, module, version, w)
    ELSE setServingStatus(e, c, module, version, "SERVING", w)

StopLegacy(c, module, version, w) ==
    LET req == RpcRequest(c, "StopModule",
                          OptionalString(module),
                          OptionalString(version),
                          NilPtr)
        r == Call(w, <<>>)
    IN Ret(<<req>>, <<>>, r.err)

Stop(e, c, module, version, w) ==
    IF ~useAdminAPI(e) THEN StopLegacy(c, module, version, w)
    ELSE setServingStatus(e, c, module, version, "STOPPED", w)

----------------------------------------------------------------------------
(* The callers' arguments, the environment and the remote ends' answers.   *)

\* "", "m"
ModuleNames == {<<>>, <<109>>}
\* "", "v"
VersionNames == {<<>>, <<118>>}
InstanceCounts == 0..MaxInstances
\* The caller's context; its current version id is "cv".
Contexts == {[id |-> "c", versionID |-> <<99, 118>>]}

\* "", "true", "True", "false", "1"
FlagValues == {<<>>, LitTrue, <<84, 114, 117, 101>>,
               <<102, 97, 108, 115, 101>>, <<49>>}
\* The values each environment variable takes: GAE_SERVICE "" or "s",
\* GOOGLE_CLOUD_PROJECT "" or "p", GAE_APPLICATION "s~d:q",
\* APPLICATION_ID "r".
EnvValues ==
    [MODULES_USE_ADMIN_API |-> FlagValues,
     GAE_SERVICE |-> {<<>>, <<115>>},
     GOOGLE_CLOUD_PROJECT |-> {<<>>, <<112>>},
     GAE_APPLICATION |-> {<<115, 126, 100, 58, 113>>},
     APPLICATION_ID |-> {<<114>>}]
EnvNames == DOMAIN EnvValues
Environments == {e \in [EnvNames -> UNION {EnvValues[n] : n \in EnvNames}] :
                    \A n \in EnvNames : e[n] \in EnvValues[n]}

SeqsUpTo(S, n) == UNION {[1..k -> S] : k \in 0..n}

\* Ids of the resources the remote ends list: "a", "b".
ResourceIds == {<<97>>, <<98>>}

RemoteErrors == {GoogleapiError(NotFoundCode), GoogleapiError(403), TransportError}
RpcErrors == {APIError(1), CallError(2)}

\* The Admin API's part in a call: whether the client could be created,
\* the error of the request, the decoded response.
AdminFailures ==
    {[created |-> FALSE, err |-> Nil, body |-> NoBody]}
    \cup {[created |-> TRUE, err |-> x, body |-> NoBody] : x \in RemoteErrors}
AdminOK(bodies) == {[created |-> TRUE, err |-> Nil, body |-> b] : b \in bodies}
\* The legacy service's part in a call.
RpcOutcomes(bodies) ==
    {[created |-> FALSE, err |-> x, body |-> NoBody] : x \in RpcErrors}
    \cup {[created |-> FALSE, err |-> Nil, body |-> b] : b \in bodies}

ListServicesResponses ==
    {[services |-> l] : l \in SeqsUpTo({[id |-> x] : x \in ResourceIds}, MaxListLen)}
ListVersionsResponses ==
    {[versions |-> l] : l \in SeqsUpTo({[id |-> x] : x \in ResourceIds}, MaxListLen)}
\* admin.Version: manual scaling with n instances, or automatic, or basic.
VersionResources ==
    {[manualScaling |-> Ptr([instances |-> n]), scaling |-> "manual"] :
        n \in InstanceCounts}
    \cup {[manualScaling |-> NilPtr, scaling |-> k] : k \in {"automatic", "basic"}}
\* admin.Operation, the answer to a patch.
Operations == {[name |-> "operations/1", done |-> d] : d \in BOOLEAN}

\* Allocation maps of at most n entries.
AllocationMaps(ids, fractions, n) ==
    UNION {[D -> fractions] : D \in {X \in SUBSET ids : Cardinality(X) <= n}}
\* admin.Service: no split, a split without allocations, or allocations.
ServiceResources(ids, fractions, n) ==
    {[split |-> NilPtr], [split |-> Ptr([allocations |-> NilPtr])]}
    \cup {[split |-> Ptr([allocations |-> Ptr(m)])] :
             m \in AllocationMaps(ids, fractions, n)}
\* Well-formed splits of the versions "a", "b": fractions 0, 0.5, 1.0.
SmallServices == ServiceResources(ResourceIds, {0, 50, FullAllocation}, 2)
\* Also malformed ones: ids "", "a", "b", "ab"; fractions -1.0 .. 1.5.
WideServices ==
    ServiceResources({<<>>, <<97>>, <<98>>, <<97, 98>>},
                     {InitialMaxAlloc, 0, 50, FullAllocation, 150}, MaxEntries)

GetModulesResponses == {[module |-> l] : l \in SeqsUpTo(ResourceIds, MaxListLen)}
GetVersionsResponses == {[version |-> l] : l \in SeqsUpTo(ResourceIds, MaxListLen)}
GetNumInstancesResponses ==
    {[instances |-> Ptr(n)] : n \in InstanceCounts} \cup {[instances |-> NilPtr]}
GetDefaultVersionResponses == {[version |-> v] : v \in ResourceIds \cup {<<>>}}
EmptyResponses == {<<>>}

\* The orders in which Go may range over the allocations of an answer.
Orderings(S) ==
    {f \in [1..Cardinality(S) -> S] : \A i, j \in DOMAIN f : i # j => f[i] # f[j]}
RangeOrders(w) ==
    IF w.created /\ w.err = Nil /\ w.body.split # NilPtr
       /\ w.body.split[1].allocations # NilPtr
    THEN Orderings(DOMAIN w.body.split[1].allocations[1])
    ELSE {<<>>}

----------------------------------------------------------------------------
(* The state machine.                                                      *)

NoCall ==
    [op |-> "none", ctx |-> "none", module |-> <<>>, version |-> <<>>,
     instances |-> 0, world |-> <<>>, order |-> <<>>, path |-> "none",
     requests |-> <<>>, val |-> <<>>, err |-> Nil, panicked |-> FALSE,
     visited |-> 0]

Init ==
    /\ env \in Environments
    /\ last = NoCall
    /\ before = "none"

\* The path a call took, read off what it did.
Observe(op, c, module, version, instances, w, order, r) ==
    /\ last' = [op |-> op, ctx |-> c, module |-> module, version |-> version,
                instances |-> instances, world |-> w, order |-> order,
                path |-> r.path, requests |-> r.requests, val |-> r.val,
                err |-> r.err, panicked |-> r.panicked, visited |-> r.visited]
    /\ before' = IF last.op = "none" THEN before ELSE last.path
    /\ UNCHANGED env

\* The remote end a call reaches, with the answers it may give.
Remote(adminBodies, rpcBodies) ==
    IF useAdminAPI(env) THEN AdminFailures \cup AdminOK(adminBodies)
    ELSE RpcOutcomes(rpcBodies)

\* os.Setenv / os.Unsetenv (the empty value) between two calls.
Setenv(names) ==
    \E n \in names : \E v \in EnvValues[n] :
        /\ env[n] # v
        /\ env' = [env EXCEPT ![n] = v]
        /\ last' = NoCall
        /\ before' = IF last.op = "none" THEN before ELSE last.path

SetenvCall == Setenv(EnvNames)

ListCall ==
    \E c \in Contexts, w \in Remote(ListServicesResponses, GetModulesResponses) :
        Observe("List", c, <<>>, <<>>, 0, w, <<>>, List(env, c, w))

NumInstancesCall ==
    \E c \in Contexts, module \in ModuleNames, version \in VersionNames,
       w \in Remote(VersionResources, GetNumInstancesResponses) :
        Observe("NumInstances", c, module, version, 0, w, <<>>,
                NumInstances(env, c, module, version, w))

SetNumInstancesCall ==
    \E c \in Contexts, module \in ModuleNames, version \in VersionNames,
       instances \in InstanceCounts, w \in Remote(Operations, EmptyResponses) :
        Observe("SetNumInstances", c, module, version, instances, w, <<>>,
                SetNumInstances(env, c, module, version, instances, w))

VersionsCall ==
    \E c \in Contexts, module \in ModuleNames,
       w \in Remote(ListVersionsResponses, GetVersionsResponses) :
        Observe("Versions", c, module, <<>>, 0, w, <<>>,
                Versions(env, c, module, w))

DoDefaultVersion(services) ==
    \E c \in Contexts, module \in ModuleNames,
       w \in Remote(services, GetDefaultVersionResponses) :
        \E order \in RangeOrders(w) :
            Observe("DefaultVersion", c, module, <<>>, 0, w, order,
                    DefaultVersion(env, c, module, w, order))

DefaultVersionCall == DoDefaultVersion(SmallServices)

StartCall ==
    \E c \in Contexts, module \in ModuleNames, version \in VersionNames,
       w \in Remote(Operations, EmptyResponses) :
        Observe("Start", c, module, version, 0, w, <<>>,
                Start(env, c, module, version, w))

StopCall ==
    \E c \in Contexts, module \in ModuleNames, version \in VersionNames,
       w \in Remote(Operations, EmptyResponses) :
        Observe("Stop", c, module, version, 0, w, <<>>,
                Stop(env, c, module, version, w))

Next ==
    \/ SetenvCall
    \/ ListCall
    \/ NumInstancesCall
    \/ SetNumInstancesCall
    \/ VersionsCall
    \/ DefaultVersionCall
    \/ StartCall
    \/ StopCall

Spec == Init /\ [][Next]_vars

\* DefaultVersion over every allocation map of WideServices, ranged over in
\* every order; each call is observed on its own.
DefaultVersionWide == last.op = "none" /\ DoDefaultVersion(WideServices)
SetenvDV == Setenv({"MODULES_USE_ADMIN_API", "GAE_SERVICE"})
NextDV == DefaultVersionWide \/ SetenvDV
SpecDV == Init /\ [][NextDV]_vars

\* Environment snapshots for identity resolution, on the Modern path:
\* GOOGLE_CLOUD_PROJECT "" or "p"; GAE_APPLICATION "", "q", "s~q", "d:q",
\* "s~d:q", "s~t~q"; APPLICATION_ID "", "r", "e~r".
IdentityEnvironments ==
    {[MODULES_USE_ADMIN_API |-> LitTrue, GAE_SERVICE |-> <<>>,
      GOOGLE_CLOUD_PROJECT |-> p, GAE_APPLICATION |-> g, APPLICATION_ID |-> a] :
        p \in {<<>>, <<112>>},
        g \in {<<>>, <<113>>, <<115, 126, 113>>, <<100, 58, 113>>,
               <<115, 126, 100, 58, 113>>, <<115, 126, 116, 126, 113>>},
        a \in {<<>>, <<114>>, <<101, 126, 114>>}}
InitID ==
    /\ env \in IdentityEnvironments
    /\ last = NoCall
    /\ before = "none"
\* Every call of the Modern path resolves the project id; List sends it.
NextID == ListCall
SpecID == InitID /\ [][NextID]_vars

----------------------------------------------------------------------------
(* Vocabulary of the properties.                                           *)

Modern == last.op # "none" /\ last.path = "Modern"
Legacy == last.op # "none" /\ last.path = "Legacy"
\* The one request of the last call, when it sent one.
Sent == last.requests # <<>>
TheRequest == last.requests[1]

\* The module and version a call is about: the argument, or the ambient
\* default when the argument is empty.
ResolvedModule ==
    IF last.module # <<>> THEN last.module
    ELSE IF env.GAE_SERVICE # <<>> THEN env.GAE_SERVICE
    ELSE LitDefault
ResolvedVersion ==
    IF last.version # <<>> THEN last.version ELSE last.ctx.versionID

\* a sorts before b: they agree on a prefix after which a ends and b does
\* not, or a has the smaller byte.
SortsBefore(a, b) ==
    \E k \in 0..Len(a) :
        /\ k <= Len(b)
        /\ \A i \in 1..k : a[i] = b[i]
        /\ \/ k = Len(a) /\ k < Len(b)
           \/ k < Len(a) /\ k < Len(b) /\ a[k + 1] < b[k + 1]

\* DefaultVersion took the Modern path and fetched a service resource.
FetchedService ==
    /\ last.op = "DefaultVersion" /\ Modern
    /\ last.world.created /\ last.world.err = Nil
\* ... whose traffic split has an allocation map.
FetchedAllocations ==
    /\ FetchedService
    /\ last.world.body.split # NilPtr
    /\ last.world.body.split[1].allocations # NilPtr
Allocations == last.world.body.split[1].allocations[1]

\* The version with the greatest allocation, the smallest id among ties.
GreatestAllocation(m) ==
    CHOOSE v \in DOMAIN m :
        \A u \in DOMAIN m \ {v} :
            m[u] < m[v] \/ (m[u] = m[v] /\ SortsBefore(v, u))

----------------------------------------------------------------------------
(* C1.  On the Modern path, when no entry of the allocation map is 1.0 and *)
(* some entry lies in [0,1), DefaultVersion returns the version id with    *)
(* the greatest allocation, the lexicographically smallest one among ties, *)
(* whatever the order in which the map is ranged over (it is returned      *)
(* without an error unless it is the empty id).                            *)
C1_Case ==
    /\ FetchedAllocations
    /\ \A v \in DOMAIN Allocations : Allocations[v] # FullAllocation
    /\ \E v \in DOMAIN Allocations :
            Allocations[v] >= 0 /\ Allocations[v] < FullAllocation
C1_GreatestAllocationWins ==
    C1_Case =>
        /\ last.val = GreatestAllocation(Allocations)
        /\ last.val # <<>> => last.err = Nil

\* A three-way tie at the greatest allocation, smallest id ranged over last.
C1_Witness ==
    /\ C1_Case
    /\ Len(last.order) = 3
    /\ \A v \in DOMAIN Allocations : Allocations[v] = 50
    /\ last.val = last.order[3]
    /\ last.err = Nil

(* C2.  On the Modern path, when exactly one entry of the allocation map   *)
(* is 1.0, DefaultVersion returns that entry's id whatever the other       *)
(* entries and the order: entries ranged over before it do not override    *)
(* it, entries after it are not examined.                                  *)
C2_Case ==
    /\ FetchedAllocations
    /\ Cardinality({v \in DOMAIN Allocations :
                        Allocations[v] = FullAllocation}) = 1
C2_FullAllocationWins ==
    C2_Case =>
        LET full == CHOOSE v \in DOMAIN Allocations :
                        Allocations[v] = FullAllocation
        IN /\ last.val = full
           /\ full # <<>> => last.err = Nil
           /\ last.visited <= Len(last.order)
           /\ last.order[last.visited] = full

\* The full entry is ranged over second, after a greater (malformed) one,
\* and before a third.
C2_Witness ==
    /\ C2_Case
    /\ Len(last.order) = 3
    /\ Allocations[last.order[1]] > FullAllocation
    /\ Allocations[last.order[2]] = FullAllocation
    /\ last.val = last.order[2]
    /\ last.visited = 2

(* C3.  On the Modern path, DefaultVersion of a fetched service without a  *)
(* traffic split or without entries in its allocation map fails with the   *)
(* "could not determine default version" error naming the module and       *)
(* returns the empty version; for a non-empty map of non-empty ids with    *)
(* allocations in [0,1] it succeeds and returns a key of the map (so that, *)
(* among these services, it fails exactly for the former).                 *)
C3_NoEntries ==
    /\ FetchedService
    /\ ~FetchedAllocations \/ DOMAIN Allocations = {}
C3_WellFormed ==
    /\ FetchedAllocations
    /\ DOMAIN Allocations # {}
    /\ \A v \in DOMAIN Allocations :
            v # <<>> /\ Allocations[v] >= 0 /\ Allocations[v] <= FullAllocation
C3_UndeterminedExactlyWithoutEntries ==
    /\ C3_NoEntries =>
          /\ last.val = <<>>
          /\ last.err = Err("module: could not determine default version", 0,
                            ResolvedModule)
    /\ C3_WellFormed =>
          /\ last.err = Nil
          /\ last.val \in DOMAIN Allocations

\* A split whose allocation map is empty, asked for the current service.
C3_Witness ==
    /\ C3_NoEntries
    /\ FetchedAllocations
    /\ last.module = <<>>
    /\ env.GAE_SERVICE = <<>>
    /\ last.err.subject = LitDefault

(* C4.  When the outbound remote call of an operation fails, the operation *)
(* returns a non-nil error and the zero value: DefaultVersion on the       *)
(* Modern path replaces a 404 by a "not found" error naming the resolved   *)
(* module; every other remote error, of either path, is returned as it is. *)
C4_Case == last.op # "none" /\ Sent /\ last.world.err # Nil
C4_RemoteErrorsReturned ==
    C4_Case =>
        /\ ~last.panicked
        /\ last.err # Nil
        /\ last.val = IF last.op = "NumInstances" THEN 0 ELSE <<>>
        /\ last.err =
              IF /\ last.op = "DefaultVersion" /\ Modern
                 /\ last.world.err.kind = "googleapi.Error"
                 /\ last.world.err.code = NotFoundCode
              THEN Err("module: Module not found", 0, ResolvedModule)
              ELSE last.world.err

\* A 404 on the service of the current module, named by its default.
C4_Witness ==
    /\ C4_Case
    /\ last.op = "DefaultVersion" /\ Modern
    /\ last.world.err = GoogleapiError(NotFoundCode)
    /\ last.module = <<>>
    /\ last.err.subject = ResolvedModule

(* C5.  On the Modern path, NumInstances of a fetched version returns      *)
(* (n, nil) when the version has manual scaling with n instances, and      *)
(* (0, an error naming the resolved version as not using manual scaling)   *)
(* when it has not: the error is nil exactly in the first case.            *)
C5_Case ==
    /\ last.op = "NumInstances" /\ Modern
    /\ last.world.created /\ last.world.err = Nil
C5_CountOrNotManualScaling ==
    C5_Case =>
        /\ (last.err = Nil) <=> (last.world.body.scaling = "manual")
        /\ IF last.world.body.scaling = "manual"
           THEN /\ last.val = last.world.body.manualScaling[1].instances
                /\ last.err = Nil
           ELSE /\ last.val = 0
                /\ last.err = Err("module: version is not using manual scaling",
                                  0, ResolvedVersion)

\* A version on basic scaling, asked for as the current version.
C5_Witness ==
    /\ C5_Case
    /\ last.world.body.scaling = "basic"
    /\ last.version = <<>>
    /\ last.err.subject = last.ctx.versionID

(* C6.  On the Modern path, SetNumInstances sends a patch (no replace) of  *)
(* the version (project, resolved module, resolved version) whose field    *)
(* mask is exactly manualScaling.instances and whose payload sets only the *)
(* manual-scaling instance count, to the caller's count; a failure of the  *)
(* patch is returned as a non-nil error.                                   *)
C6_Case == last.op = "SetNumInstances" /\ Modern /\ last.world.created
C6_PatchOfInstancesOnly ==
    C6_Case =>
        /\ Len(last.requests) = 1
        /\ TheRequest.call = "apps.services.versions.patch"
        /\ TheRequest.verb = "PATCH"
        /\ TheRequest.project = getProjectID(env)
        /\ TheRequest.service = ResolvedModule
        /\ TheRequest.version = ResolvedVersion
        /\ TheRequest.updateMask = "manualScaling.instances"
        /\ DOMAIN TheRequest.body = {"manualScaling"}
        /\ DOMAIN TheRequest.body.manualScaling = {"instances"}
        /\ TheRequest.body.manualScaling.instances = last.instances
        /\ last.world.err # Nil => last.err # Nil
        /\ last.err = last.world.err

\* A refused patch of the greatest count, on the current module.
C6_Witness ==
    /\ C6_Case
    /\ last.module = <<>>
    /\ last.instances = MaxInstances
    /\ last.world.err = GoogleapiError(403)
    /\ last.err # Nil

(* C7.  On the Modern path, Start and Stop send a patch whose field mask   *)
(* is exactly servingStatus and whose payload sets only the serving        *)
(* status, SERVING for Start and STOPPED for Stop; the operation token of  *)
(* every request is the one of its operation, and the tokens of the seven  *)
(* operations are pairwise distinct.                                       *)
C7_Token ==
    [List |-> "get_modules", NumInstances |-> "get_num_instances",
     SetNumInstances |-> "set_num_instances", Versions |-> "get_versions",
     DefaultVersion |-> "get_default_version", Start |-> "start_version",
     Stop |-> "stop_version"]
C7_ServingStatusPatch ==
    /\ \A a, b \in DOMAIN C7_Token : a # b => C7_Token[a] # C7_Token[b]
    /\ Modern /\ Sent =>
          TheRequest.userAgent = UserAgentPrefix \o C7_Token[last.op]
    /\ Modern /\ Sent /\ last.op \in {"Start", "Stop"} =>
          /\ Len(last.requests) = 1
          /\ TheRequest.verb = "PATCH"
          /\ TheRequest.updateMask = "servingStatus"
          /\ DOMAIN TheRequest.body = {"servingStatus"}
          /\ TheRequest.body.servingStatus =
                IF last.op = "Start" THEN "SERVING" ELSE "STOPPED"

\* A Stop that sent its patch.
C7_Witness ==
    /\ Modern /\ Sent /\ last.op = "Stop"
    /\ TheRequest.body.servingStatus = "STOPPED"
    /\ TheRequest.userAgent = UserAgentPrefix \o "stop_version"

(* C8.  Every call takes the Modern path if and only if the opt-in flag,   *)
(* at the time of the call, is "true" in any letter case, and the Legacy   *)
(* path otherwise, whatever path the call before took.                     *)
C8_FlagIsTrue ==
    LET f == env.MODULES_USE_ADMIN_API
    IN /\ Len(f) = 4
       /\ f[1] \in {84, 116} /\ f[2] \in {82, 114}
       /\ f[3] \in {85, 117} /\ f[4] \in {69, 101}
C8_PathFollowsFlag ==
    last.op # "none" =>
        /\ last.path \in {"Modern", "Legacy"}
        /\ (last.path = "Modern") <=> C8_FlagIsTrue

\* A Modern call under the flag "True", right after a Legacy call.
C8_Witness ==
    /\ Modern
    /\ before = "Legacy"
    /\ env.MODULES_USE_ADMIN_API = <<84, 114, 117, 101>>

(* C9.  On the Modern path, the request of NumInstances, SetNumInstances,  *)
(* Versions, DefaultVersion, Start and Stop addresses the resolved module  *)
(* and version: an empty module argument is the service-name variable, or  *)
(* "default" when that is empty; an empty version argument is the current  *)
(* version id; a non-empty argument is used as it is.                      *)
C9_Case == Modern /\ Sent /\ last.op # "List"
C9_DefaultsResolved ==
    C9_Case =>
        /\ TheRequest.service = ResolvedModule
        /\ last.op \in {"NumInstances", "SetNumInstances", "Start", "Stop"} =>
              TheRequest.version = ResolvedVersion

\* Versions of the current module, with no service name in the environment.
C9_Witness ==
    /\ C9_Case
    /\ last.op = "Versions"
    /\ last.module = <<>>
    /\ env.GAE_SERVICE = <<>>
    /\ TheRequest.service = LitDefault

(* C10.  On the Legacy path, every operation makes one call to the service *)
(* "modules" with its own method, in which the module field, and the       *)
(* version field of the operations that take a version, is set if and      *)
(* only if the argument is not empty, and then to the argument;            *)
(* SetNumInstances always carries the caller's count; no default is        *)
(* resolved.                                                               *)
C10_Method ==
    [List |-> "GetModules", NumInstances |-> "GetNumInstances",
     SetNumInstances |-> "SetNumInstances", Versions |-> "GetVersions",
     DefaultVersion |-> "GetDefaultVersion", Start |-> "StartModule",
     Stop |-> "StopModule"]
C10_LegacyRequest ==
    Legacy =>
        /\ Len(last.requests) = 1
        /\ TheRequest.api = "rpc"
        /\ TheRequest.service = "modules"
        /\ TheRequest.method = C10_Method[last.op]
        /\ TheRequest.module =
              IF last.module = <<>> THEN <<>> ELSE <<last.module>>
        /\ TheRequest.version =
              IF last.version = <<>> THEN <<>> ELSE <<last.version>>
        /\ TheRequest.instances =
              IF last.op = "SetNumInstances" THEN <<last.instances>> ELSE <<>>

\* SetNumInstances of the current module, with the version given.
C10_Witness ==
    /\ Legacy
    /\ last.op = "SetNumInstances"
    /\ last.module = <<>> /\ last.version # <<>>
    /\ TheRequest.module = <<>>
    /\ TheRequest.version = <<last.version>>
    /\ TheRequest.instances = <<0>>

(* C11.  Project id resolution: a non-empty project-id variable is the     *)
(* project id; otherwise it is the application id with everything up to    *)
(* and including the first tilde removed (the whole application id when it *)
(* has no tilde) and then without its "domain:" prefix, so that "q" and    *)
(* "d:q" resolve to "q" and not to the empty string.                       *)
C11_ApplicationID ==
    IF env.GAE_APPLICATION # <<>> THEN env.GAE_APPLICATION
    ELSE env.APPLICATION_ID
\* s without everything up to and including the first byte b, s when b is
\* not in s.
C11_After(s, b) ==
    IF \A i \in 1..Len(s) : s[i] # b THEN s
    ELSE LET k == CHOOSE i \in 1..Len(s) :
                      s[i] = b /\ \A j \in 1..(i - 1) : s[j] # b
         IN SubSeq(s, k + 1, Len(s))
C11_Expected ==
    IF env.GOOGLE_CLOUD_PROJECT # <<>> THEN env.GOOGLE_CLOUD_PROJECT
    ELSE C11_After(C11_After(C11_ApplicationID, Tilde), Colon)
C11_ProjectIDResolved ==
    Modern /\ Sent /\ last.op = "List" => TheRequest.project = C11_Expected

(* C12.  On the Modern path, List returns exactly the ids of the services  *)
(* of the list response and Versions exactly the ids of the versions of    *)
(* the list response: same length, same order, nothing sorted, dropped or  *)
(* merged.                                                                 *)
C12_Case ==
    /\ Modern /\ last.op \in {"List", "Versions"}
    /\ last.world.created /\ last.world.err = Nil
C12_Listed ==
    IF last.op = "List" THEN last.world.body.services
    ELSE last.world.body.versions
C12_IdsAsListed ==
    C12_Case =>
        /\ last.err = Nil
        /\ Len(last.val) = Len(C12_Listed)
        /\ \A i \in 1..Len(C12_Listed) : last.val[i] = C12_Listed[i].id

\* Versions listed out of order: "b" before "a".
C12_Witness ==
    /\ C12_Case
    /\ last.op = "Versions"
    /\ last.val = <<<<98>>, <<97>>>>

(* C13.  On the Modern path, every operation attaches the caller's         *)
(* context to its outbound request, so that cancelling the context cancels *)
(* the request.                                                            *)
C13_ContextAttached ==
    Modern /\ Sent => TheRequest.ctx = last.ctx.id

(* C14.  On the Modern path a call sends exactly one request when the      *)
(* administrative client is constructed and none when it is not: List,     *)
(* Versions, NumInstances and DefaultVersion one read, SetNumInstances,    *)
(* Start and Stop one partial update; nothing is sent twice and the        *)
(* operation an update answers with is not polled, so an accepted update   *)
(* returns success whether or not the operation is done.                   *)
C14_Reads == {"List", "Versions", "NumInstances", "DefaultVersion"}
C14_Updates == {"SetNumInstances", "Start", "Stop"}
C14_OneRequest ==
    Modern =>
        /\ last.op \in C14_Reads \cup C14_Updates
        /\ ~last.world.created => last.requests = <<>> /\ last.err # Nil
        /\ last.world.created =>
              /\ Len(last.requests) = 1
              /\ TheRequest.api = "admin"
              /\ last.op \in C14_Reads => TheRequest.verb = "GET"
              /\ last.op \in C14_Updates => TheRequest.verb = "PATCH"
        /\ last.op \in C14_Updates /\ last.world.created /\ last.world.err = Nil =>
              last.err = Nil

\* An accepted patch whose operation is not done yet: Start returns nil.
C14_Witness ==
    /\ Modern /\ last.op = "Start"
    /\ last.world.created /\ last.world.err = Nil
    /\ ~last.world.body.done
    /\ Len(last.requests) = 1
    /\ last.err = Nil

(* C15.  On the Legacy path NumInstances ends, for every result of the     *)
(* legacy call, with (count, nil) or (0, a non-nil error): also when the   *)
(* call returns no error and its response has no instance count, it        *)
(* returns to the caller and does not crash.                               *)
C15_Case == Legacy /\ last.op = "NumInstances"
C15_AlwaysReturns ==
    C15_Case =>
        /\ ~last.panicked
        /\ \/ last.err = Nil /\ last.world.err = Nil
              /\ last.world.body.instances = <<last.val>>
           \/ last.err # Nil /\ last.val = 0

====
